---- MODULE Spec2Model ----
(***************************************************************************)
(* Model of InternetGuzeldir's site builder (rebuild.py).                  *)
(*                                                                         *)
(* Python strings are sequences of one-character strings, so that split,   *)
(* strip, join and count are computed character by character.  Python's    *)
(* None is the one-element sequence None, which is no string of the model  *)
(* (its only element is not a single character).  A dict is a function;    *)
(* a list is a sequence.                                                   *)
(***************************************************************************)
EXTENDS Integers, Sequences, FiniteSets, TLC

\* ------------------------------------------------------------------ bounds

\* The largest number of data rows on the links page.
MaxRows == 2

\* ------------------------------------------------------------- Python values

None == <<"<None>">>

\* A datetime cell (create_time): a value that is neither None nor a str.
DateTimeValue == <<"<datetime>">>

\* No exception.  An exception has its class (kind), the function that raised
\* it and what its message names.
NoError ==
    [kind |-> "none", raised_by |-> "", message |-> "", line |-> 0,
     column |-> "", index |-> -1, category_id |-> None]

IsStr(v) == v # None /\ v # DateTimeValue

\* The characters str.strip() removes.
Whitespace == {" ", "\t"}

\* ENV["SPREADSHEET_CATEGORY_SEPARATOR"]
SPREADSHEET_CATEGORY_SEPARATOR == ">"

RECURSIVE LStrip(_)
LStrip(s) ==
    IF s # << >> /\ Head(s) \in Whitespace THEN LStrip(Tail(s)) ELSE s

RECURSIVE RStrip(_)
RStrip(s) ==
    IF s # << >> /\ s[Len(s)] \in Whitespace
    THEN RStrip(SubSeq(s, 1, Len(s) - 1))
    ELSE s

\* str.strip()
Strip(s) == RStrip(LStrip(s))

\* str.split(sep) for a one-character separator: the pieces between the
\* occurrences of sep, empty pieces included.
RECURSIVE Split(_, _)
Split(s, sep) ==
    IF \E k \in 1..Len(s) : s[k] = sep
    THEN LET k == CHOOSE k \in 1..Len(s) :
                     s[k] = sep /\ \A j \in 1..(k - 1) : s[j] # sep
         IN  <<SubSeq(s, 1, k - 1)>> \o Split(SubSeq(s, k + 1, Len(s)), sep)
    ELSE <<s>>

\* sep.join(parts)
RECURSIVE Join(_, _)
Join(parts, sep) ==
    IF parts = << >> THEN << >>
    ELSE IF Len(parts) = 1 THEN parts[1]
    ELSE parts[1] \o sep \o Join(Tail(parts), sep)

\* str.count(sep) for a one-character separator.
Count(s, sep) == Cardinality({k \in 1..Len(s) : s[k] = sep})

\* filter(lambda part: bool(part), parts)
RECURSIVE FilterNonEmpty(_)
FilterNonEmpty(parts) ==
    IF parts = << >> THEN << >>
    ELSE IF Head(parts) = << >> THEN FilterNonEmpty(Tail(parts))
    ELSE <<Head(parts)>> \o FilterNonEmpty(Tail(parts))

\* slugify(): the words of the text joined by hyphens.
RECURSIVE SlugWords(_)
SlugWords(s) ==
    IF \E k \in 1..Len(s) : s[k] \in Whitespace
    THEN LET k == CHOOSE k \in 1..Len(s) :
                     s[k] \in Whitespace /\ \A j \in 1..(k - 1) : s[j] \notin Whitespace
         IN  <<SubSeq(s, 1, k - 1)>> \o SlugWords(SubSeq(s, k + 1, Len(s)))
    ELSE <<s>>

Slugify(s) == Join(FilterNonEmpty(SlugWords(s)), <<"-">>)

\* `if x:` for a value that is a str or None.
Truthy(s) == s # None /\ s # << >>

InSeq(x, seq) == \E k \in 1..Len(seq) : seq[k] = x

SeqToSet(seq) == { seq[k] : k \in 1..Len(seq) }

\* dict[key] = value
Put(dict, key, value) ==
    [k \in (DOMAIN dict) \cup {key} |-> IF k = key THEN value ELSE dict[k]]

\* ------------------------------------------------------------------ columns

LINK_COLUMNS ==
    <<"line_number", "title", "url", "desc", "category_id", "kind", "lang",
      "sender", "source", "create_time">>

REQUIRED_COLUMNS ==
    <<"title", "url", "desc", "category_id", "kind", "lang", "create_time">>

\* get_column_index(key): LINK_COLUMNS.index(key).  Python counts from 0 and
\* the model's tuples from 1: the cell of column key is row[get_column_index(key)].
get_column_index(key) ==
    CHOOSE k \in 1..Len(LINK_COLUMNS) : LINK_COLUMNS[k] = key

\* ----------------------------------------------------------- path utilities

get_category_parts(category_id) ==
    FilterNonEmpty(
        [k \in 1..Len(Split(category_id, SPREADSHEET_CATEGORY_SEPARATOR)) |->
            Strip(Split(category_id, SPREADSHEET_CATEGORY_SEPARATOR)[k])])

get_category_path(category_id) ==
    LET parts == get_category_parts(category_id)
    IN  Join([k \in 1..Len(parts) |-> Slugify(parts[k])], <<"/">>) \o <<"/">>

get_category_depth(category_id) ==
    Count(category_id, SPREADSHEET_CATEGORY_SEPARATOR)

\* s * n for a str s.
RECURSIVE Repeat(_, _)
Repeat(s, n) == IF n <= 0 THEN << >> ELSE s \o Repeat(s, n - 1)

get_category_root_path(category_id) ==
    Repeat(<<".", ".", "/">>, get_category_depth(category_id) + 1)

get_parent_category_id(category_id) ==
    IF category_id = None THEN None
    ELSE LET parts == get_category_parts(category_id)
         IN  IF Len(parts) > 1
             THEN Join(SubSeq(parts, 1, Len(parts) - 1),
                       <<" ", SPREADSHEET_CATEGORY_SEPARATOR, " ">>)
             ELSE None

\* ------------------------------------------------------------------- inputs

Pad == <<" ", SPREADSHEET_CATEGORY_SEPARATOR, " ">>

\* The category cells the link rows are drawn from: padded and unpadded
\* separators, one to three parts, siblings, an untrimmed cell, a trailing
\* and a doubled separator, and a cell that is only the separator.
CategoryIds ==
    { <<"a">>,
      <<"a">> \o Pad \o <<"b">>,
      <<"a", ">", "b">>,
      <<"a">> \o Pad \o <<"c">>,
      <<"a">> \o Pad \o <<"b">> \o Pad \o <<"c">>,
      <<"a", ">", "b", ">", "c">>,
      <<" ", "a">>,
      <<"a", ">">>,
      <<"a", ">", ">", "b">>,
      <<">">> }

\* A links page row with every cell filled in and trimmed.
LinkRow(line_number, category_id) ==
    <<line_number, <<"t">>, <<"u">>, <<"d">>, category_id, <<"k">>, <<"l">>,
      <<"s">>, <<"r">>, DateTimeValue>>

\* The categories pages the builder is run with: rows (line, key, title,
\* desc), some of them shorter than four cells, some keys named twice.
CategoryPages ==
    { << >>,
      << <<1, <<"b">>>>, <<2, <<"a">> \o Pad \o <<"b">>, <<"T", "2">>, <<"D", "2">>>> >>,
      << <<1, <<"z">>, <<"T", "3">>>>, <<2, <<"a", ">", "b">>, None, <<"D", "4">>>> >>,
      << <<1, <<"a">>, <<"T", "1">>, <<"D", "1">>>>, <<2, <<"a">>, None, <<"D", "5">>>> >> }

\* -------------------------------------------------------------------- state

VARIABLES
    links_page_rows,        \* build: links_page_lines, get_categories: links_page_rows
    categories_page_rows,   \* the rows of the categories page
    overrides,              \* get_categories: overrides
    categories,             \* get_categories: categories
    warnings,               \* the keys logger.warning was called with, and how often
    pc,                     \* the position inside get_categories
    row_index,              \* the row the current for loop over the link rows is at
    child_category_id,      \* get_categories: child_category_id
    parent_category_id,     \* get_categories: parent_category_id
    call,                   \* which call of get_categories this is (1 or 2)
    first_result,           \* the map the first call returned
    stage,                  \* the statement of build that runs next
    error,                  \* the exception that ended build
    outputs,                \* what build has written, in the order of writing
    links_by_category,      \* build: links_by_category, as (key, links) pairs
    force,                  \* render_links: force (FORCE_SCREENSHOT)
    browser,                \* render_links: browser
    link_index,             \* the link the loop of render_links is at
    image_files,            \* the screenshots exists(image_path) finds on disk
    snapshots,              \* per link page written: was the browser called
    sheet_links,            \* tweeter: the links of the sheet, in sheet order
    index_file,             \* tweeter: what pickle.index holds ("index"), or None
    announced,              \* tweeter: the links api.update_status has posted
    tweeter_pc,             \* per run: the statement of __main__ that runs next
    current_index,          \* per run: Tweeter.current_index
    links_sheet,            \* per run: Tweeter.links_sheet
    link_to_share,          \* per run: Tweeter.link_to_share
    tweeter_error           \* per run: the exception that ended it

tree_vars ==
    <<overrides, categories, warnings, pc, row_index, child_category_id,
      parent_category_id>>

snapshot_vars == <<image_files, snapshots>>

build_vars ==
    <<stage, error, outputs, links_by_category, force, browser, link_index,
      snapshot_vars>>

tweet_vars ==
    <<sheet_links, index_file, announced, tweeter_pc, current_index,
      links_sheet, link_to_share, tweeter_error>>

vars ==
    <<links_page_rows, categories_page_rows, tree_vars, call, first_result,
      build_vars, tweet_vars>>

\* The runs of tweeter.py, and the links of the sheet it reads.
MaxRuns == 2
MaxLinks == 2

Runs == 1..MaxRuns

\* tweeter.py has not been started: the state of every run before line 95.
TweeterNotRun ==
    /\ sheet_links = << >>
    /\ index_file = None
    /\ announced = << >>
    /\ tweeter_pc = [r \in Runs |-> "idle"]
    /\ current_index = [r \in Runs |-> None]
    /\ links_sheet = [r \in Runs |-> None]
    /\ link_to_share = [r \in Runs |-> None]
    /\ tweeter_error = [r \in Runs |-> "none"]

\* --------------------------------------------------------- category overrides

\* One row of the categories page: the dict built at lines 412-416.
override_of(category_page_row) ==
    LET has_title == Len(category_page_row) > 2 /\ category_page_row[3] # None
        has_desc  == Len(category_page_row) > 3 /\ category_page_row[4] # None
    IN  [f \in (IF has_title THEN {"title"} ELSE {}) \cup
               (IF has_desc THEN {"desc"} ELSE {}) |->
            IF f = "title" THEN category_page_row[3] ELSE category_page_row[4]]

RECURSIVE get_category_overrides_loop(_, _)
get_category_overrides_loop(rows, result) ==
    IF rows = << >> THEN result
    ELSE get_category_overrides_loop(
             Tail(rows), Put(result, Head(rows)[2], override_of(Head(rows))))

get_category_overrides(rows) == get_category_overrides_loop(rows, << >>)

\* get_category_info raises IndexError on parts[-1] of an empty list.
get_category_info_raises(category_id) == get_category_parts(category_id) = << >>

\* A builder in which a category without an override of its own takes its
\* parent's.
get_category_info_inherited(category_id, ovr) ==
    LET parts  == get_category_parts(category_id)
        name   == parts[Len(parts)]
        result == [name     |-> name,
                   title    |-> name,
                   desc     |-> None,
                   parent   |-> None,
                   id       |-> category_id,
                   path     |-> get_category_path(category_id),
                   children |-> << >>]
        parent == get_parent_category_id(category_id)
        update == IF category_id \in DOMAIN ovr THEN ovr[category_id]
                  ELSE IF parent \in DOMAIN ovr THEN ovr[parent]
                  ELSE << >>
    IN  [f \in DOMAIN result |->
            IF f \in DOMAIN update THEN update[f] ELSE result[f]]

get_category_info(category_id, ovr) ==
    LET parts  == get_category_parts(category_id)
        name   == parts[Len(parts)]
        result == [name     |-> name,
                   title    |-> name,
                   desc     |-> None,
                   parent   |-> None,
                   id       |-> category_id,
                   path     |-> get_category_path(category_id),
                   children |-> << >>]
        update == IF category_id \in DOMAIN ovr THEN ovr[category_id] ELSE << >>
    IN  [f \in DOMAIN result |->
            IF f \in DOMAIN update THEN update[f] ELSE result[f]]

\* ------------------------------------------------------------ get_categories

\* Lines 482-485, 487-490, 492-495: create the node unless it is there.
ensure_category(cats, category_id, ovr) ==
    IF category_id \in DOMAIN cats THEN cats
    ELSE Put(cats, category_id, get_category_info(category_id, ovr))

\* A builder that writes the child's own key into its parent field.
link_category_self_parent(cats, child, parent) ==
    LET with_parent ==
            IF cats[child].parent = None
            THEN [cats EXCEPT ![child].parent = child]
            ELSE cats
    IN  IF ~InSeq(child, with_parent[parent].children)
        THEN [with_parent EXCEPT ![parent].children = Append(@, child)]
        ELSE with_parent

\* A builder that appends the child without looking whether it is listed.
link_category_no_dedup(cats, child, parent) ==
    LET with_parent ==
            IF cats[child].parent = None
            THEN [cats EXCEPT ![child].parent = parent]
            ELSE cats
    IN  [with_parent EXCEPT ![parent].children = Append(@, child)]

\* A builder that assigns the children list instead of appending to it.
link_category_overwrite(cats, child, parent) ==
    LET with_parent ==
            IF cats[child].parent = None
            THEN [cats EXCEPT ![child].parent = parent]
            ELSE cats
    IN  IF ~InSeq(child, with_parent[parent].children)
        THEN [with_parent EXCEPT ![parent].children = <<child>>]
        ELSE with_parent

\* Lines 498-506: the first parent wins, a child is listed once.
link_category(cats, child, parent) ==
    LET with_parent ==
            IF cats[child].parent = None
            THEN [cats EXCEPT ![child].parent = parent]
            ELSE cats
    IN  IF ~InSeq(child, with_parent[parent].children)
        THEN [with_parent EXCEPT ![parent].children = Append(@, child)]
        ELSE with_parent

\* The categories named on the overrides page and on no link row.
missing_categories(ovr, rows) ==
    (DOMAIN ovr) \ {rows[k][get_column_index("category_id")] : k \in 1..Len(rows)}

\* Lines 455-466: a fresh map, the overrides, one warning per missing category.
GcBegin ==
    /\ pc = "begin"
    /\ categories' = << >>
    /\ overrides' = get_category_overrides(categories_page_rows)
    /\ warnings' = [k \in missing_categories(overrides', links_page_rows) |-> 1]
    /\ row_index' = 1
    /\ pc' = "pass1"
    /\ UNCHANGED <<tweet_vars,
                   links_page_rows, categories_page_rows, child_category_id,
                   parent_category_id, call, first_result,
                   build_vars>>

\* Lines 468-473: one row of the first loop.
GcPass1 ==
    /\ pc = "pass1"
    /\ IF row_index > Len(links_page_rows)
       THEN /\ pc' = "pass2"
            /\ row_index' = 1
            /\ UNCHANGED categories
       ELSE LET category_id ==
                    links_page_rows[row_index][get_column_index("category_id")]
            IN  IF category_id \in DOMAIN categories
                THEN /\ row_index' = row_index + 1
                     /\ UNCHANGED <<pc, categories>>
                ELSE IF get_category_info_raises(category_id)
                THEN /\ pc' = "raised"
                     /\ UNCHANGED <<row_index, categories>>
                ELSE /\ categories' =
                            Put(categories, category_id,
                                get_category_info(category_id, overrides))
                     /\ row_index' = row_index + 1
                     /\ UNCHANGED pc
    /\ UNCHANGED <<tweet_vars,
                   links_page_rows, categories_page_rows, overrides, warnings,
                   child_category_id, parent_category_id, call, first_result,
                   build_vars>>

\* Lines 475-478 and 511: the next row of the second loop, or the return.
GcPass2 ==
    /\ pc = "pass2"
    /\ IF row_index > Len(links_page_rows)
       THEN /\ pc' = "done"
            /\ UNCHANGED <<child_category_id, parent_category_id>>
       ELSE /\ child_category_id' =
                   links_page_rows[row_index][get_column_index("category_id")]
            /\ parent_category_id' = get_parent_category_id(child_category_id')
            /\ pc' = "walk"
    /\ UNCHANGED <<tweet_vars,
                   links_page_rows, categories_page_rows, overrides, categories,
                   warnings, row_index, call, first_result,
                   build_vars>>

\* Lines 480-509: one iteration of the while loop, or its exit.
GcWalk ==
    /\ pc = "walk"
    /\ IF ~Truthy(child_category_id)
       THEN /\ pc' = "pass2"
            /\ row_index' = row_index + 1
            /\ UNCHANGED <<categories, child_category_id, parent_category_id>>
       ELSE IF \/ /\ child_category_id \notin DOMAIN categories
                  /\ get_category_info_raises(child_category_id)
               \/ /\ Truthy(parent_category_id)
                  /\ parent_category_id \notin DOMAIN categories
                  /\ get_category_info_raises(parent_category_id)
       THEN /\ pc' = "raised"
            /\ UNCHANGED <<row_index, categories, child_category_id,
                           parent_category_id>>
       ELSE LET with_child == ensure_category(categories, child_category_id, overrides)
                with_both ==
                    IF Truthy(parent_category_id)
                    THEN ensure_category(with_child, parent_category_id, overrides)
                    ELSE with_child
            IN  /\ categories' =
                       IF Truthy(parent_category_id)
                       THEN link_category(with_both, child_category_id,
                                          parent_category_id)
                       ELSE with_both
                /\ child_category_id' = parent_category_id
                /\ parent_category_id' = get_parent_category_id(parent_category_id)
                /\ UNCHANGED <<pc, row_index>>
    /\ UNCHANGED <<tweet_vars,
                   links_page_rows, categories_page_rows, overrides, warnings,
                   call, first_result,
                   build_vars>>

\* The rows of a sheet in another order.
Reorderings(rows) ==
    { [k \in 1..Len(rows) |-> rows[p[k]]] :
        p \in {q \in [1..Len(rows) -> 1..Len(rows)] :
                  \A x, y \in 1..Len(rows) : q[x] = q[y] => x = y} }

\* get_categories is called again with the same rows in any order.
CallAgain ==
    /\ pc = "done"
    /\ call = 1
    /\ first_result' = categories
    /\ call' = 2
    /\ links_page_rows' \in Reorderings(links_page_rows)
    /\ pc' = "begin"
    /\ UNCHANGED <<tweet_vars,
                   categories_page_rows, overrides, categories, warnings,
                   row_index, child_category_id, parent_category_id,
                   build_vars>>

Init ==
    /\ \E n \in 0..MaxRows :
           \E ids \in [1..n -> CategoryIds] :
               links_page_rows = [k \in 1..n |-> LinkRow(k, ids[k])]
    /\ categories_page_rows \in CategoryPages
    /\ overrides = << >>
    /\ categories = << >>
    /\ warnings = << >>
    /\ pc = "begin"
    /\ row_index = 1
    /\ child_category_id = None
    /\ parent_category_id = None
    /\ call = 1
    /\ first_result = << >>
    /\ stage = "direct"
    /\ error = NoError
    /\ outputs = << >>
    /\ links_by_category = << >>
    /\ force = FALSE
    /\ browser = "none"
    /\ link_index = 0
    /\ image_files = {}
    /\ snapshots = << >>
    /\ TweeterNotRun

Next == GcBegin \/ GcPass1 \/ GcPass2 \/ GcWalk \/ CallAgain

Spec == Init /\ [][Next]_vars

\* -------------------------------------------------------------------- links

\* Line 287-291: the create_time with the configured time zone attached.
WithTimezone(create_time) == create_time \o <<"<tz>">>

get_link_from_row(row) ==
    [row_number  |-> row[get_column_index("line_number")],
     title       |-> row[get_column_index("title")],
     url         |-> row[get_column_index("url")],
     desc        |-> row[get_column_index("desc")],
     category_id |-> row[get_column_index("category_id")],
     kind        |-> row[get_column_index("kind")],
     lang        |-> row[get_column_index("lang")],
     sender      |-> row[get_column_index("sender")],
     source      |-> row[get_column_index("source")],
     create_time |-> WithTimezone(row[get_column_index("create_time")]),
     file_path   |-> get_category_path(row[get_column_index("category_id")])
                         \o Slugify(row[get_column_index("url")])
                         \o <<".", "h", "t", "m", "l">>]

\* result[category_id].append(link) on a dict that keeps the order in which
\* its keys were first used: a sequence of (key, links) pairs.
append_link(result, category_id, link) ==
    IF \E k \in 1..Len(result) : result[k][1] = category_id
    THEN [k \in 1..Len(result) |->
             IF result[k][1] = category_id
             THEN <<category_id, Append(result[k][2], link)>>
             ELSE result[k]]
    ELSE Append(result, <<category_id, <<link>>>>)

RECURSIVE get_links_by_category_loop(_, _)
get_links_by_category_loop(link_rows, result) ==
    IF link_rows = << >> THEN result
    ELSE get_links_by_category_loop(
             Tail(link_rows),
             append_link(result,
                         Head(link_rows)[get_column_index("category_id")],
                         get_link_from_row(Head(link_rows))))

get_links_by_category(link_rows) == get_links_by_category_loop(link_rows, << >>)

\* The (category_id, link) pairs in the order the nested loops of render_links
\* visit them.
RECURSIVE links_in_order(_)
links_in_order(by_category) ==
    IF by_category = << >> THEN << >>
    ELSE [k \in 1..Len(Head(by_category)[2]) |->
             <<Head(by_category)[1], Head(by_category)[2][k]>>]
         \o links_in_order(Tail(by_category))

\* get_category_breadcrumbs: the first breadcrumb_id that is no key of the
\* map (categories[breadcrumb_id] raises KeyError), or None.
missing_breadcrumb(category_id, cats) ==
    LET parts == get_category_parts(category_id)
        breadcrumb_id(k) == Join(SubSeq(parts, 1, k), <<" ", ">", " ">>)
    IN  IF \E k \in 1..Len(parts) : breadcrumb_id(k) \notin DOMAIN cats
        THEN breadcrumb_id(
                 CHOOSE k \in 1..Len(parts) :
                     /\ breadcrumb_id(k) \notin DOMAIN cats
                     /\ \A j \in 1..(k - 1) : breadcrumb_id(j) \in DOMAIN cats)
        ELSE None

\* --------------------------------------------------------------------- build

\* required_column_indexes (lines 825-828): the tuple positions of the
\* required columns.
required_column_indexes ==
    { get_column_index(REQUIRED_COLUMNS[k]) : k \in 1..Len(REQUIRED_COLUMNS) }

\* Line 838: a str that starts or ends with a space.
must_be_trimmed(column) ==
    /\ IsStr(column)
    /\ column # << >>
    /\ (column[1] = " " \/ column[Len(column)] = " ")

\* A cell at which the validation loop raises.
offending(row, index) ==
    \/ index \in required_column_indexes /\ row[index] = None
    \/ must_be_trimmed(row[index])

\* A validation that reports the line as the row's index, without the header.
validation_error_zero_based(row) ==
    LET index == CHOOSE i \in 2..Len(row) :
                     offending(row, i) /\ \A j \in 2..(i - 1) : ~offending(row, j)
    IN  IF index \in required_column_indexes /\ row[index] = None
        THEN [NoError EXCEPT !.kind = "ValueError",
                             !.raised_by = "build",
                             !.message = "has missing value on column",
                             !.line = row[1],
                             !.column = LINK_COLUMNS[index]]
        ELSE IF index \in required_column_indexes
        THEN [NoError EXCEPT !.kind = "ValueError",
                             !.raised_by = "build",
                             !.message = "has a value that must be trimmed on column",
                             !.line = row[1],
                             !.column = LINK_COLUMNS[index]]
        ELSE [NoError EXCEPT !.kind = "KeyError",
                             !.raised_by = "build",
                             !.index = index - 1]

\* Lines 830-841 for one row: the exception raised at its first offending
\* cell.  The line_number cell (Python index 0) is skipped; the KeyError is
\* required_column_indexes[index] for a column that is not required.
validation_error(row) ==
    LET index == CHOOSE i \in 2..Len(row) :
                     offending(row, i) /\ \A j \in 2..(i - 1) : ~offending(row, j)
    IN  IF index \in required_column_indexes /\ row[index] = None
        THEN [NoError EXCEPT !.kind = "ValueError",
                             !.raised_by = "build",
                             !.message = "has missing value on column",
                             !.line = row[1] + 1,
                             !.column = LINK_COLUMNS[index]]
        ELSE IF index \in required_column_indexes
        THEN [NoError EXCEPT !.kind = "ValueError",
                             !.raised_by = "build",
                             !.message = "has a value that must be trimmed on column",
                             !.line = row[1] + 1,
                             !.column = LINK_COLUMNS[index]]
        ELSE [NoError EXCEPT !.kind = "KeyError",
                             !.raised_by = "build",
                             !.index = index - 1]

\* A validation that records what it finds and goes on to the next row.
ValidateWithoutRaising ==
    /\ stage = "validate"
    /\ IF row_index > Len(links_page_rows)
       THEN /\ categories_page_rows' \in CategoryPages
            /\ stage' = "get_links_by_category"
            /\ UNCHANGED <<row_index, error>>
       ELSE IF \E i \in 2..Len(links_page_rows[row_index]) :
                   offending(links_page_rows[row_index], i)
       THEN /\ error' = validation_error(links_page_rows[row_index])
            /\ row_index' = row_index + 1
            /\ UNCHANGED <<stage, categories_page_rows>>
       ELSE /\ row_index' = row_index + 1
            /\ UNCHANGED <<stage, error, categories_page_rows>>
    /\ UNCHANGED <<tweet_vars,
                   links_page_rows, overrides, categories,
                   warnings, pc, child_category_id, parent_category_id, call,
                   first_result, outputs, links_by_category, force,
                   snapshot_vars, browser,
                   link_index>>

\* Lines 829-845: one row of the validation loop; after the last row the
\* rows of the categories page are read.
Validate ==
    /\ stage = "validate"
    /\ IF row_index > Len(links_page_rows)
       THEN /\ categories_page_rows' \in CategoryPages
            /\ stage' = "get_links_by_category"
            /\ UNCHANGED <<row_index, error>>
       ELSE IF \E i \in 2..Len(links_page_rows[row_index]) :
                   offending(links_page_rows[row_index], i)
       THEN /\ error' = validation_error(links_page_rows[row_index])
            /\ stage' = "failed"
            /\ UNCHANGED <<row_index, categories_page_rows>>
       ELSE /\ row_index' = row_index + 1
            /\ UNCHANGED <<stage, error, categories_page_rows>>
    /\ UNCHANGED <<tweet_vars,
                   links_page_rows, overrides, categories,
                   warnings, pc, child_category_id, parent_category_id, call,
                   first_result, outputs, links_by_category, force,
                   snapshot_vars, browser,
                   link_index>>

\* Line 852.
GetLinksByCategory ==
    /\ stage = "get_links_by_category"
    /\ links_by_category' = get_links_by_category(links_page_rows)
    /\ stage' = "get_categories"
    /\ UNCHANGED <<tweet_vars,
                   links_page_rows, categories_page_rows, tree_vars, call,
                   first_result, error, outputs, force,
                   snapshot_vars, browser, link_index>>

\* Line 853: the call of get_categories.
CallGetCategories ==
    /\ stage = "get_categories"
    /\ pc = "idle"
    /\ pc' = "begin"
    /\ UNCHANGED <<tweet_vars,
                   links_page_rows, categories_page_rows, overrides, categories,
                   warnings, row_index, child_category_id, parent_category_id,
                   call, first_result, build_vars>>

\* Line 853: get_categories returns, or its IndexError ends build.
ReturnFromGetCategories ==
    /\ stage = "get_categories"
    /\ pc \in {"done", "raised"}
    /\ IF pc = "done"
       THEN /\ stage' = "create_category_paths"
            /\ UNCHANGED error
       ELSE /\ stage' = "failed"
            /\ error' = [NoError EXCEPT !.kind = "IndexError",
                                      !.raised_by = "get_category_info"]
    /\ pc' = "idle"
    /\ UNCHANGED <<tweet_vars,
                   links_page_rows, categories_page_rows, overrides, categories,
                   warnings, row_index, child_category_id, parent_category_id,
                   call, first_result, outputs, links_by_category, force,
                   snapshot_vars,
                   browser, link_index>>

Written(name, targets) == [stage |-> name, targets |-> targets]

\* Lines 855-856: a directory for the category of every link row.
CreateCategoryPaths ==
    /\ stage = "create_category_paths"
    /\ outputs' =
           IF links_page_rows = << >> THEN outputs
           ELSE Append(outputs,
                       Written("create_category_paths",
                               { get_category_path(
                                     links_page_rows[k][get_column_index("category_id")]) :
                                   k \in 1..Len(links_page_rows) }))
    /\ stage' = "render_json"
    /\ UNCHANGED <<tweet_vars,
                   links_page_rows, categories_page_rows, tree_vars, call,
                   first_result, error, links_by_category, force,
                   snapshot_vars, browser,
                   link_index>>

\* Line 857.
RenderJson ==
    /\ stage = "render_json"
    /\ outputs' = Append(outputs, Written("render_json", {<<"data.json">>}))
    /\ stage' = "build_assets"
    /\ UNCHANGED <<tweet_vars,
                   links_page_rows, categories_page_rows, tree_vars, call,
                   first_result, error, links_by_category, force,
                   snapshot_vars, browser,
                   link_index>>

\* Line 858.
BuildAssets ==
    /\ stage = "build_assets"
    /\ outputs' = Append(outputs, Written("build_assets", {<<"assets">>}))
    /\ stage' = "render_categories"
    /\ UNCHANGED <<tweet_vars,
                   links_page_rows, categories_page_rows, tree_vars, call,
                   first_result, error, links_by_category, force,
                   snapshot_vars, browser,
                   link_index>>

\* Line 859, render_categories: the pages of the categories that have links,
\* in the order of links_by_category, then the pages of the other categories.
\* The breadcrumbs of a category are looked up before its page is written.
RenderCategories ==
    /\ stage = "render_categories"
    /\ LET with_links == [k \in 1..Len(links_by_category) |-> links_by_category[k][1]]
           raises(k)  == missing_breadcrumb(with_links[k], categories) # None
           others     == (DOMAIN categories) \ SeqToSet(with_links)
       IN  IF \E k \in 1..Len(with_links) : raises(k)
           THEN LET first == CHOOSE k \in 1..Len(with_links) :
                                 raises(k) /\ \A j \in 1..(k - 1) : ~raises(j)
                IN  /\ outputs' =
                           IF first = 1 THEN outputs
                           ELSE Append(outputs,
                                       Written("render_categories",
                                               { categories[with_links[j]].path :
                                                   j \in 1..(first - 1) }))
                    /\ error' = [NoError EXCEPT
                                    !.kind = "KeyError",
                                    !.raised_by = "get_category_breadcrumbs",
                                    !.category_id =
                                        missing_breadcrumb(with_links[first], categories)]
                    /\ stage' = "failed"
           ELSE IF \E key \in others : missing_breadcrumb(key, categories) # None
           THEN /\ outputs' =
                       Append(outputs,
                              Written("render_categories",
                                      { categories[key].path :
                                          key \in SeqToSet(with_links) \cup
                                              { o \in others :
                                                  missing_breadcrumb(o, categories) = None } }))
                /\ error' = [NoError EXCEPT
                                !.kind = "KeyError",
                                !.raised_by = "get_category_breadcrumbs",
                                !.category_id =
                                    missing_breadcrumb(
                                        CHOOSE key \in others :
                                            missing_breadcrumb(key, categories) # None,
                                        categories)]
                /\ stage' = "failed"
           ELSE /\ outputs' =
                       IF DOMAIN categories = {} THEN outputs
                       ELSE Append(outputs,
                                   Written("render_categories",
                                           { categories[key].path :
                                               key \in DOMAIN categories }))
                /\ stage' = "render_links"
                /\ UNCHANGED error
    /\ UNCHANGED <<tweet_vars,
                   links_page_rows, categories_page_rows, tree_vars, call,
                   first_result, links_by_category, force,
                   snapshot_vars, browser, link_index>>

\* The image_url of a link (line 698).
image_url_of(link) == link.file_path \o <<".", "p", "n", "g">>

\* Lines 677-694: FORCE_SCREENSHOT is read; get_browser returns a session or
\* None.  The build directory holds the screenshots earlier builds left.
RenderLinksBegin ==
    /\ stage = "render_links"
    /\ link_index = 0
    /\ force' \in BOOLEAN
    /\ browser' \in {"none", "open"}
    /\ image_files' \in
           SUBSET { image_url_of(links_in_order(links_by_category)[k][2]) :
                      k \in 1..Len(links_in_order(links_by_category)) }
    /\ link_index' = 1
    /\ UNCHANGED <<tweet_vars,
                   links_page_rows, categories_page_rows, tree_vars, call,
                   first_result, stage, error, outputs, links_by_category,
                   snapshots>>

\* A condition that leaves the flag out.
takes_screenshot_unless_exists(force_flag, image_exists, session) ==
    ~image_exists /\ session = "open"

\* Line 715: force or not exists(image_path) and browser.
takes_screenshot(force_flag, image_exists, session) ==
    force_flag \/ (~image_exists /\ session = "open")

\* Lines 696-718: one link.  The page is written, then the three calls on the
\* browser succeed or raise; browser.get on None raises AttributeError.
RenderLink ==
    /\ stage = "render_links"
    /\ link_index \in 1..Len(links_in_order(links_by_category))
    /\ LET category_id == links_in_order(links_by_category)[link_index][1]
           link        == links_in_order(links_by_category)[link_index][2]
           image_url   == image_url_of(link)
           page        == Written("render_links", {link.file_path})
           visited(called) ==
               Append(snapshots, [image_url |-> image_url,
                                  existed   |-> image_url \in image_files,
                                  called    |-> called])
       IN  IF missing_breadcrumb(category_id, categories) # None
           THEN /\ error' = [NoError EXCEPT
                                !.kind = "KeyError",
                                !.raised_by = "get_category_breadcrumbs",
                                !.category_id =
                                    missing_breadcrumb(category_id, categories)]
                /\ stage' = "failed"
                /\ UNCHANGED <<outputs, link_index, snapshot_vars>>
           ELSE IF takes_screenshot(force, image_url \in image_files, browser)
           THEN IF browser # "open"
                THEN /\ outputs' = Append(outputs, page)
                     /\ snapshots' = visited(FALSE)
                     /\ error' = [NoError EXCEPT !.kind = "AttributeError",
                                               !.raised_by = "render_links"]
                     /\ stage' = "failed"
                     /\ UNCHANGED <<link_index, image_files>>
                ELSE \/ /\ outputs' =
                               Append(Append(outputs, page),
                                      Written("save_screenshot", {image_url}))
                        /\ snapshots' = visited(TRUE)
                        /\ image_files' = image_files \cup {image_url}
                        /\ link_index' = link_index + 1
                        /\ UNCHANGED <<stage, error>>
                     \/ /\ outputs' = Append(outputs, page)
                        /\ snapshots' = visited(TRUE)
                        /\ error' = [NoError EXCEPT
                                        !.kind = "WebDriverException",
                                        !.raised_by = "render_links"]
                        /\ stage' = "failed"
                        /\ UNCHANGED <<link_index, image_files>>
           ELSE /\ outputs' = Append(outputs, page)
                /\ snapshots' = visited(FALSE)
                /\ link_index' = link_index + 1
                /\ UNCHANGED <<stage, error, image_files>>
    /\ UNCHANGED <<tweet_vars,
                   links_page_rows, categories_page_rows, tree_vars, call,
                   first_result, links_by_category, force, browser>>

\* Lines 719-720: the end of the loops.
RenderLinksEnd ==
    /\ stage = "render_links"
    /\ link_index > Len(links_in_order(links_by_category))
    /\ browser' = IF browser = "open" THEN "closed" ELSE browser
    /\ stage' = "render_home"
    /\ UNCHANGED <<tweet_vars,
                   links_page_rows, categories_page_rows, tree_vars, call,
                   first_result, error, outputs, links_by_category, force,
                   snapshot_vars,
                   link_index>>

\* Line 861.
RenderHome ==
    /\ stage = "render_home"
    /\ outputs' = Append(outputs, Written("render_home", {<<"index.html">>}))
    /\ stage' = "render_sitemap"
    /\ UNCHANGED <<tweet_vars,
                   links_page_rows, categories_page_rows, tree_vars, call,
                   first_result, error, links_by_category, force,
                   snapshot_vars, browser,
                   link_index>>

\* Line 862.
RenderSitemap ==
    /\ stage = "render_sitemap"
    /\ outputs' = Append(outputs, Written("render_sitemap", {<<"sitemap.xml">>}))
    /\ stage' = "render_feed"
    /\ UNCHANGED <<tweet_vars,
                   links_page_rows, categories_page_rows, tree_vars, call,
                   first_result, error, links_by_category, force,
                   snapshot_vars, browser,
                   link_index>>

\* A build that exports data.json once more after the feed.
RenderFeedThenJson ==
    /\ stage = "render_feed"
    /\ outputs' =
           Append(Append(outputs,
                         Written("render_feed", {<<"rss.xml">>, <<"atom.xml">>})),
                  Written("render_json", {<<"data.json">>}))
    /\ stage' = "finished"
    /\ UNCHANGED <<tweet_vars,
                   links_page_rows, categories_page_rows, tree_vars, call,
                   first_result, error, links_by_category, force,
                   snapshot_vars, browser,
                   link_index>>

\* Line 863.
RenderFeed ==
    /\ stage = "render_feed"
    /\ outputs' =
           Append(outputs, Written("render_feed", {<<"rss.xml">>, <<"atom.xml">>}))
    /\ stage' = "finished"
    /\ UNCHANGED <<tweet_vars,
                   links_page_rows, categories_page_rows, tree_vars, call,
                   first_result, error, links_by_category, force,
                   snapshot_vars, browser,
                   link_index>>

\* The category cells of the sheets build is run on.
BuildCategoryIds ==
    { <<"a">>,
      <<"a">> \o Pad \o <<"b">>,
      <<"a", ">", "b">>,
      <<"a", ">">>,
      <<">">> }

\* What an ill-filled cell holds: nothing, or a text with a space before or
\* after it.
BadCells == { None, <<" ", "x">>, <<"x", " ">> }

\* The rows of the links page: well-filled rows in every category, rows with
\* one ill-filled cell, and a row whose sender starts with a tab.
SheetRows ==
    { LinkRow(0, category_id) : category_id \in BuildCategoryIds }
        \cup { [LinkRow(0, <<"a">>) EXCEPT ![index] = cell] :
                 index \in 2..Len(LINK_COLUMNS), cell \in BadCells }
        \cup { [LinkRow(0, <<"a">>) EXCEPT ![get_column_index("sender")] = <<"\t", "x">>] }

\* get_rows: the rows after the header, each with its enumerate() index first.
BuildInit ==
    /\ \E n \in 0..MaxRows :
           \E sheet \in [1..n -> SheetRows] :
               links_page_rows = [k \in 1..n |-> [sheet[k] EXCEPT ![1] = k]]
    /\ categories_page_rows = << >>
    /\ overrides = << >>
    /\ categories = << >>
    /\ warnings = << >>
    /\ pc = "idle"
    /\ row_index = 1
    /\ child_category_id = None
    /\ parent_category_id = None
    /\ call = 1
    /\ first_result = << >>
    /\ stage = "validate"
    /\ error = NoError
    /\ outputs = << >>
    /\ links_by_category = << >>
    /\ force = FALSE
    /\ browser = "none"
    /\ link_index = 0
    /\ image_files = {}
    /\ snapshots = << >>
    /\ TweeterNotRun

BuildNext ==
    \/ Validate
    \/ GetLinksByCategory
    \/ CallGetCategories
    \/ GcBegin \/ GcPass1 \/ GcPass2 \/ GcWalk
    \/ ReturnFromGetCategories
    \/ CreateCategoryPaths
    \/ RenderJson
    \/ BuildAssets
    \/ RenderCategories
    \/ RenderLinksBegin
    \/ RenderLink
    \/ RenderLinksEnd
    \/ RenderHome
    \/ RenderSitemap
    \/ RenderFeed

BuildSpec == BuildInit /\ [][BuildNext]_vars

\* ------------------------------------------------------------------ tweeter

Digits == <<"0", "1", "2", "3", "4", "5", "6", "7", "8", "9">>

\* str(n) for an int that is not negative.
RECURSIVE ToStr(_)
ToStr(n) ==
    IF n < 10 THEN <<Digits[n + 1]>>
    ELSE ToStr(n \div 10) \o <<Digits[(n % 10) + 1]>>

\* int(s) for a str of decimal digits.
RECURSIVE ToInt(_)
ToInt(s) ==
    LET digit(c) == (CHOOSE d \in 1..Len(Digits) : Digits[d] = c) - 1
    IN  IF Len(s) = 1 THEN digit(s[1])
        ELSE 10 * ToInt(SubSeq(s, 1, Len(s) - 1)) + digit(s[Len(s)])

\* The link of the sheet with the k-th create_time, counting from 0.
Link(k) == [create_time |-> k, file_path |-> <<"a", "/", "u">> \o ToStr(k)]

\* sorted(links, key=create_time) by insertion.
RECURSIVE SortedByCreateTime(_)
SortedByCreateTime(links) ==
    IF links = << >> THEN << >>
    ELSE LET rest   == SortedByCreateTime(SubSeq(links, 1, Len(links) - 1))
             last   == links[Len(links)]
             before == Cardinality({k \in 1..Len(rest) :
                                      rest[k].create_time <= last.create_time})
         IN  SubSeq(rest, 1, before) \o <<last>>
                 \o SubSeq(rest, before + 1, Len(rest))

\* get_links_by_date(rows, reverse=False), lines 548-551.
get_links_by_date(links) == SortedByCreateTime(links)

\* Line 100: tweeter.current_index += 1.
increment_by_two(index) == index + 2

increment(index) == index + 1

\* Line 83: self.links_sheet[self.current_index], where the index is in range.
link_after(links, index) ==
    links[IF index + 2 <= Len(links) THEN index + 2 ELSE index + 1]

link_at(links, index) == links[index + 1]

Active(r) == tweeter_pc[r] \notin {"idle", "ended", "failed"}

Fails(r, exception) ==
    /\ tweeter_pc' = [tweeter_pc EXCEPT ![r] = "failed"]
    /\ tweeter_error' = [tweeter_error EXCEPT ![r] = exception]

Goes(r, statement) ==
    /\ tweeter_pc' = [tweeter_pc EXCEPT ![r] = statement]
    /\ UNCHANGED tweeter_error

build_side ==
    <<links_page_rows, categories_page_rows, tree_vars, call, first_result,
      build_vars>>

\* Line 95: Tweeter(); check_env raises when a credential is missing.
StartRun(r) ==
    /\ tweeter_pc[r] = "idle"
    /\ \/ Goes(r, "load_index")
       \/ Fails(r, "Exception: missing env credentials")
    /\ UNCHANGED <<build_side, sheet_links, index_file, announced,
                   current_index, links_sheet, link_to_share>>

\* A run that is started while no other run is under way.
StartRunAlone(r) ==
    /\ \A q \in Runs : ~Active(q)
    /\ StartRun(r)

\* Lines 69-74, load_index: the index in pickle.index, or FileNotFoundError.
LoadIndex(r) ==
    /\ tweeter_pc[r] = "load_index"
    /\ IF index_file = None
       THEN /\ Goes(r, "create_index")
            /\ UNCHANGED current_index
       ELSE /\ current_index' = [current_index EXCEPT ![r] = ToInt(index_file)]
            /\ Goes(r, "load_links")
    /\ UNCHANGED <<build_side, sheet_links, index_file, announced,
                   links_sheet, link_to_share>>

\* Lines 64-67, create_index, called from the except clause of load_index.
CreateIndex(r) ==
    /\ tweeter_pc[r] = "create_index"
    /\ current_index' = [current_index EXCEPT ![r] = 0]
    /\ index_file' = ToStr(0)
    /\ Goes(r, "load_links")
    /\ UNCHANGED <<build_side, sheet_links, announced, links_sheet,
                   link_to_share>>

\* Lines 54-62, load_links: the download succeeds or raises.
LoadLinks(r) ==
    /\ tweeter_pc[r] = "load_links"
    /\ \/ /\ links_sheet' =
                 [links_sheet EXCEPT ![r] = get_links_by_date(sheet_links)]
          /\ Goes(r, "set_link_to_share")
       \/ /\ Fails(r, "URLError")
          /\ UNCHANGED links_sheet
    /\ UNCHANGED <<build_side, sheet_links, index_file, announced,
                   current_index, link_to_share>>

\* Lines 80-83, set_link_to_share.
SetLinkToShare(r) ==
    /\ tweeter_pc[r] = "set_link_to_share"
    /\ IF current_index[r] > Len(links_sheet[r])
       THEN /\ Fails(r, "Exception: No new links to publish")
            /\ UNCHANGED link_to_share
       ELSE IF current_index[r] = Len(links_sheet[r])
       THEN /\ Fails(r, "IndexError: list index out of range")
            /\ UNCHANGED link_to_share
       ELSE /\ link_to_share' =
                   [link_to_share EXCEPT
                       ![r] = link_at(links_sheet[r], current_index[r])]
            /\ Goes(r, "tweet")
    /\ UNCHANGED <<build_side, sheet_links, index_file, announced,
                   current_index, links_sheet>>

\* Lines 88-91, tweet: api.update_status posts the link or raises.
Tweet(r) ==
    /\ tweeter_pc[r] = "tweet"
    /\ \/ /\ announced' = Append(announced, link_to_share[r])
          /\ Goes(r, "increment")
       \/ /\ Fails(r, "TweepError")
          /\ UNCHANGED announced
    /\ UNCHANGED <<build_side, sheet_links, index_file, current_index,
                   links_sheet, link_to_share>>

\* Line 100.
Increment(r) ==
    /\ tweeter_pc[r] = "increment"
    /\ current_index' = [current_index EXCEPT ![r] = increment(current_index[r])]
    /\ Goes(r, "save_index")
    /\ UNCHANGED <<build_side, sheet_links, index_file, announced,
                   links_sheet, link_to_share>>

\* Lines 76-78 and 101, save_index.
SaveIndex(r) ==
    /\ tweeter_pc[r] = "save_index"
    /\ index_file' = ToStr(current_index[r])
    /\ Goes(r, "ended")
    /\ UNCHANGED <<build_side, sheet_links, announced, current_index,
                   links_sheet, link_to_share>>

\* The sheet holds links in any order; pickle.index is missing, or holds the
\* index earlier runs left after announcing the links before it.  The index
\* is one more than the number of links when the newest link has been taken
\* off the sheet since.
TweetInit ==
    /\ links_page_rows = << >>
    /\ categories_page_rows = << >>
    /\ overrides = << >>
    /\ categories = << >>
    /\ warnings = << >>
    /\ pc = "idle"
    /\ row_index = 1
    /\ child_category_id = None
    /\ parent_category_id = None
    /\ call = 1
    /\ first_result = << >>
    /\ stage = "tweeter"
    /\ error = NoError
    /\ outputs = << >>
    /\ links_by_category = << >>
    /\ force = FALSE
    /\ browser = "none"
    /\ link_index = 0
    /\ image_files = {}
    /\ snapshots = << >>
    /\ \E n \in 0..MaxLinks :
           /\ \E order \in [1..n -> 0..(n - 1)] :
                  /\ \A j, k \in 1..n : j # k => order[j] # order[k]
                  /\ sheet_links = [k \in 1..n |-> Link(order[k])]
           /\ \/ index_file = None /\ announced = << >>
              \/ \E i \in 0..(n + 1) :
                     /\ index_file = ToStr(i)
                     /\ announced = [k \in 1..i |-> Link(k - 1)]
    /\ tweeter_pc = [r \in Runs |-> "idle"]
    /\ current_index = [r \in Runs |-> None]
    /\ links_sheet = [r \in Runs |-> None]
    /\ link_to_share = [r \in Runs |-> None]
    /\ tweeter_error = [r \in Runs |-> "none"]

\* Runs one after the other.
TweetNext ==
    \E r \in Runs :
        \/ StartRunAlone(r)
        \/ LoadIndex(r)
        \/ CreateIndex(r)
        \/ LoadLinks(r)
        \/ SetLinkToShare(r)
        \/ Tweet(r)
        \/ Increment(r)
        \/ SaveIndex(r)

TweetSpec == TweetInit /\ [][TweetNext]_vars

\* Runs started at any time, their statements interleaved.
ConcurrentTweetNext ==
    \E r \in Runs :
        \/ StartRun(r)
        \/ LoadIndex(r)
        \/ CreateIndex(r)
        \/ LoadLinks(r)
        \/ SetLinkToShare(r)
        \/ Tweet(r)
        \/ Increment(r)
        \/ SaveIndex(r)

ConcurrentTweetSpec == TweetInit /\ [][ConcurrentTweetNext]_vars

\* ------------------------------------------------------------------- claims

RowCategoryIds ==
    { links_page_rows[k][get_column_index("category_id")] :
        k \in 1..Len(links_page_rows) }

\* Following parent from key stays inside the map and meets a node without
\* parent after at most steps steps.
RECURSIVE ReachesRoot(_, _)
ReachesRoot(key, steps) ==
    /\ key \in DOMAIN categories
    /\ \/ categories[key].parent = None
       \/ /\ steps > 0
          /\ ReachesRoot(categories[key].parent, steps - 1)

\* The number of parent steps from key to a node without parent (the map's
\* size when there is none within that many steps).
RECURSIVE ChainLength(_, _)
ChainLength(key, fuel) ==
    IF key \notin DOMAIN categories \/ fuel = 0 THEN 0
    ELSE IF categories[key].parent = None THEN 0
    ELSE 1 + ChainLength(categories[key].parent, fuel - 1)

\* C1: when get_categories has returned, the category of every link row is a
\* key of the map, and its parent chain stays in the map and ends at a node
\* without parent within get_category_depth(key) steps.
C1_AncestorChain ==
    pc = "done" =>
        \A key \in RowCategoryIds : ReachesRoot(key, get_category_depth(key))

\* A returned map in which a row's category has its parent and its
\* grandparent above it.
C1_Witness ==
    /\ pc = "done"
    /\ \E key \in RowCategoryIds :
           /\ get_category_depth(key) = 2
           /\ ChainLength(key, 3) = 2

\* C2: in every state of the ancestor walk, and at the end, c is listed among
\* the children of p exactly when p is the parent of c; no node lists itself
\* and no children list names a key twice.
C2_ParentChildrenSymmetry ==
    \A p \in DOMAIN categories :
        /\ \A c \in DOMAIN categories :
               InSeq(c, categories[p].children) <=> categories[c].parent = p
        /\ ~InSeq(p, categories[p].children)
        /\ \A x, y \in 1..Len(categories[p].children) :
               categories[p].children[x] = categories[p].children[y] => x = y

\* The walk of a later row comes by a child that its parent already lists.
C2_Witness ==
    /\ pc = "walk"
    /\ row_index > 1
    /\ Truthy(parent_category_id)
    /\ parent_category_id \in DOMAIN categories
    /\ InSeq(child_category_id, categories[parent_category_id].children)
    /\ categories[child_category_id].parent = parent_category_id

\* C3: when get_categories has returned, no two different keys of the map
\* have the same sequence of trimmed, non-empty parts.
C3_PartwiseIdentity ==
    pc = "done" =>
        \A k1, k2 \in DOMAIN categories :
            get_category_parts(k1) = get_category_parts(k2) => k1 = k2

SameNodeUpToChildrenOrder(n1, n2) ==
    /\ n1.name = n2.name
    /\ n1.title = n2.title
    /\ n1.desc = n2.desc
    /\ n1.path = n2.path
    /\ n1.parent = n2.parent
    /\ SeqToSet(n1.children) = SeqToSet(n2.children)

\* C4: the call on the reordered rows returns, and its map has the keys of the
\* first call's map and, for every key, the same name, title, desc, path and
\* parent and the same set of children.
C4_OrderIndependent ==
    (call = 2 /\ pc \in {"done", "raised"}) =>
        /\ pc = "done"
        /\ DOMAIN categories = DOMAIN first_result
        /\ \A k \in DOMAIN categories :
               SameNodeUpToChildrenOrder(categories[k], first_result[k])

\* The second call has returned a map whose children lists are in another
\* order than the first call's.
C4_Witness ==
    /\ call = 2
    /\ pc = "done"
    /\ categories # first_result
    /\ \E k \in DOMAIN categories : Len(categories[k].children) = 2

\* The ancestors of a category: its parent, the parent's parent, and so on.
RECURSIVE Ancestors(_)
Ancestors(category_id) ==
    LET parent == get_parent_category_id(category_id)
    IN  IF parent = None THEN {} ELSE {parent} \cup Ancestors(parent)

ReferencedCategories ==
    RowCategoryIds \cup UNION { Ancestors(key) : key \in RowCategoryIds }

\* C6: get_categories warns about an override key exactly when the key is
\* neither the category of a link row nor an ancestor of one, and then once.
C6_WarningIffUnreferenced ==
    pc = "done" =>
        /\ DOMAIN warnings \subseteq DOMAIN overrides
        /\ \A key \in DOMAIN overrides :
               IF key \in ReferencedCategories
               THEN key \notin DOMAIN warnings
               ELSE key \in DOMAIN warnings /\ warnings[key] = 1

\* C7: the title of every node is the override title of exactly its key, or
\* its name when that key has none; its desc is the override desc of exactly
\* its key, or None.
C7_OverrideExactKey ==
    \A key \in DOMAIN categories :
        LET parts == get_category_parts(key)
            own   == IF key \in DOMAIN overrides THEN overrides[key] ELSE << >>
        IN  /\ categories[key].name = parts[Len(parts)]
            /\ categories[key].title =
                   IF "title" \in DOMAIN own THEN own["title"]
                   ELSE parts[Len(parts)]
            /\ categories[key].desc =
                   IF "desc" \in DOMAIN own THEN own["desc"] ELSE None

\* A synthesized ancestor carries its override while its child and its parent,
\* which have none, carry their names.
C7_Witness ==
    /\ pc = "done"
    /\ \E key \in DOMAIN categories \ RowCategoryIds :
           /\ key \in DOMAIN overrides
           /\ "title" \in DOMAIN overrides[key]
           /\ categories[key].title = overrides[key]["title"]
           /\ categories[key].title # categories[key].name
           /\ categories[key].parent # None
           /\ categories[categories[key].parent].title =
                  categories[categories[key].parent].name
           /\ \E c \in DOMAIN categories :
                  /\ categories[c].parent = key
                  /\ categories[c].title = categories[c].name
                  /\ categories[c].desc = None

\* The first cell, rows in order and columns from left to right, at which the
\* validation loop raises: <<row, index>>, or << >> when no cell offends.
FirstOffendingCell ==
    LET cells == { <<k, i>> \in (1..Len(links_page_rows)) \X (2..Len(LINK_COLUMNS)) :
                     offending(links_page_rows[k], i) }
    IN  IF cells = {} THEN << >>
        ELSE CHOOSE c \in cells :
                 \A d \in cells : c[1] < d[1] \/ (c[1] = d[1] /\ c[2] <= d[2])

MissingCells ==
    { <<k, i>> \in (1..Len(links_page_rows)) \X required_column_indexes :
        links_page_rows[k][i] = None }

\* C8: when the validation loop of build has raised, nothing has been written
\* and build has ended.
C8_NoOutputAfterValidationFailure ==
    error.raised_by = "build" => (outputs = << >> /\ stage = "failed")

\* The validation loop has raised at the second row of a sheet.
C8_Witness ==
    /\ stage = "failed"
    /\ error.raised_by = "build"
    /\ row_index = 2
    /\ outputs = << >>

\* C9 as claimed: on a sheet in which a required cell is None, build ends in
\* validation with the missing-value error, and the error names the sheet row
\* (the header being row 1) and the column of a cell that is None.
C9_MissingFieldReported ==
    (MissingCells # {} /\ stage # "validate") =>
        /\ stage = "failed"
        /\ error.kind = "ValueError"
        /\ error.raised_by = "build"
        /\ \E c \in MissingCells :
               /\ error.line = c[1] + 1
               /\ error.column = LINK_COLUMNS[c[2]]

\* C9, amended: on a sheet whose first offending cell is a required cell that
\* is None, build ends in validation with the missing-value error, and the
\* error names the sheet row (the header being row 1) and the column of that
\* cell.
C9_FirstMissingFieldReported ==
    (FirstOffendingCell \in MissingCells /\ stage # "validate") =>
        /\ stage = "failed"
        /\ error.kind = "ValueError"
        /\ error.raised_by = "build"
        /\ error.message = "has missing value on column"
        /\ error.line = FirstOffendingCell[1] + 1
        /\ error.column = LINK_COLUMNS[FirstOffendingCell[2]]

\* The validation has raised for a missing cell of the second data row, after
\* a first row without fault.
C9_Witness ==
    /\ stage = "failed"
    /\ FirstOffendingCell \in MissingCells
    /\ FirstOffendingCell[1] = 2
    /\ error.line = 3
    /\ error.message = "has missing value on column"

\* The str cells of the sheet that start or end with whitespace.
UntrimmedCells ==
    { <<k, i>> \in (1..Len(links_page_rows)) \X (2..Len(LINK_COLUMNS)) :
        /\ IsStr(links_page_rows[k][i])
        /\ Strip(links_page_rows[k][i]) # links_page_rows[k][i] }

\* C10: on a sheet in which a str cell, of a required column or not, starts or
\* ends with whitespace, build ends in validation with the validation error
\* (the ValueError a missing required cell raises).
C10_UntrimmedIsValidationError ==
    (UntrimmedCells # {} /\ stage # "validate") =>
        /\ stage = "failed"
        /\ error.kind = "ValueError"
        /\ error.raised_by = "build"

\* The statements of build in the order of lines 829-863.
BuildOrder ==
    <<"validate", "get_links_by_category", "get_categories",
      "create_category_paths", "render_json", "build_assets",
      "render_categories", "render_links", "render_home", "render_sitemap",
      "render_feed", "finished">>

Position(name) == CHOOSE k \in 1..Len(BuildOrder) : BuildOrder[k] = name

\* The statement of build during which an output was written: a screenshot is
\* saved inside render_links.
Writer(output) ==
    IF output.stage = "save_screenshot" THEN "render_links" ELSE output.stage

\* The stages that write pages, the sitemap and the feeds.
PageStages ==
    {"render_categories", "render_links", "render_home", "render_sitemap",
     "render_feed"}

\* C11 as claimed: data.json is written after the category pages, the link
\* pages, the home page, the sitemap and the feeds, never before one of them.
C11_JsonExportLast ==
    \A i, j \in 1..Len(outputs) :
        (outputs[i].stage = "render_json" /\ outputs[j].stage \in PageStages)
            => j < i

\* C11, amended: build runs its statements in the order validate,
\* get_links_by_category, get_categories, create_category_paths, render_json,
\* build_assets, render_categories, render_links, render_home, render_sitemap,
\* render_feed and never goes back: what has been written was written in that
\* order by statements not after the current one, data.json before every page,
\* the sitemap and the feeds, and a finished build has written data.json.
C11_StagesInCodeOrder ==
    /\ \A i, j \in 1..Len(outputs) :
           i < j => Position(Writer(outputs[i])) <= Position(Writer(outputs[j]))
    /\ \A i \in 1..Len(outputs) :
           \/ stage = "failed"
           \/ Position(Writer(outputs[i])) < Position(stage)
           \/ stage = "render_links" /\ Writer(outputs[i]) = "render_links"
    /\ \A i, j \in 1..Len(outputs) :
           (outputs[i].stage = "render_json" /\ outputs[j].stage \in PageStages)
               => i < j
    /\ stage = "finished" =>
           /\ \E i \in 1..Len(outputs) : outputs[i].stage = "render_json"
           /\ outputs[Len(outputs)].stage = "render_feed"

\* A build has finished after writing category pages, link pages and a
\* screenshot.
C11_Witness ==
    /\ stage = "finished"
    /\ \E i \in 1..Len(outputs) : outputs[i].stage = "render_categories"
    /\ \E i \in 1..Len(outputs) : outputs[i].stage = "render_links"
    /\ \E i \in 1..Len(outputs) : outputs[i].stage = "save_screenshot"

\* C12: in render_links with a browser session, for every link whose page has
\* been written the browser was called for a screenshot exactly when the force
\* flag is true or no screenshot existed at the link's image path.
C12_SnapshotUnlessExistsAndNotForced ==
    browser # "none" =>
        \A k \in 1..Len(snapshots) :
            snapshots[k].called <=> (force \/ ~snapshots[k].existed)

\* With a browser session, render_links has written two link pages: the
\* screenshot of one existed, and the browser was called for one whose
\* screenshot did not exist.
C12_Witness ==
    /\ browser # "none"
    /\ \E k \in 1..Len(snapshots) : snapshots[k].existed
    /\ \E k \in 1..Len(snapshots) : ~snapshots[k].existed /\ snapshots[k].called
    /\ Len(snapshots) = 2

\* C13: a failure of the screenshot of one link, the AttributeError of a
\* forced screenshot without a browser included, never ends build: build is
\* never in its failed state with an exception raised by the screenshot
\* statements of render_links.
C13_SnapshotFailureNeverFatal ==
    ~(stage = "failed" /\ error.raised_by = "render_links")

\* C20: no build ends, finished or failed, with a browser session that
\* render_links acquired and never closed.
C20_BrowserClosedOnEveryExit ==
    stage \in {"finished", "failed"} => browser # "open"

\* The directories a relative path names, one after the other.
DirectorySegments(path) == FilterNonEmpty(Split(path, "/"))

\* C16: for every key of the category map, get_category_root_path(key) goes
\* up as many directories as get_category_path(key) goes down: the number of
\* "../" in the one equals the number of directory segments of the other.
C16_RootPathMatchesPath ==
    \A key \in DOMAIN categories :
        Len(DirectorySegments(get_category_root_path(key)))
            = Len(DirectorySegments(get_category_path(key)))

\* C17: for every key of the category map, every prefix of the key's parts,
\* joined with " > " as get_category_breadcrumbs joins them, is a key of the
\* map when get_categories returns, and no breadcrumb lookup of
\* render_categories or render_links raises KeyError.
C17_BreadcrumbsAreKeys ==
    /\ pc = "done" =>
           \A key \in DOMAIN categories :
               missing_breadcrumb(key, categories) = None
    /\ error.raised_by # "get_category_breadcrumbs"

\* C18: on link rows that have passed the validation loop of build,
\* get_categories returns a map: it never raises, and build never ends with
\* an exception of get_category_info.
C18_TreeConstructionTotal ==
    stage \notin {"direct", "validate"} =>
        /\ pc # "raised"
        /\ error.raised_by # "get_category_info"

\* The run has executed set_link_to_share: it is about to tweet, or it has
\* failed there or in tweet.
PastSelection(r) ==
    \/ tweeter_pc[r] = "tweet"
    \/ /\ tweeter_pc[r] = "failed"
       /\ tweeter_error[r] \in {"Exception: No new links to publish",
                                "IndexError: list index out of range",
                                "TweepError"}

\* C14: in a run that has come past set_link_to_share with an index that is
\* not below the number of links, the selection has failed with "No new links
\* to publish", no link has been posted and pickle.index still holds the
\* index that was loaded; with an index below it, the link to share is the
\* link at that index of the date-ascending sequence.
C14_ExhaustedFromLengthOn ==
    \A r \in Runs :
        PastSelection(r) =>
            IF current_index[r] >= Len(links_sheet[r])
            THEN /\ tweeter_pc[r] = "failed"
                 /\ tweeter_error[r] = "Exception: No new links to publish"
                 /\ Len(announced) = current_index[r]
                 /\ index_file = ToStr(current_index[r])
            ELSE link_to_share[r] =
                     get_links_by_date(sheet_links)[current_index[r] + 1]

\* C19: with runs one after the other on a fixed sheet, the links posted are
\* the links of the date-ascending sequence from its start, in order, none
\* left out and none twice; pickle.index, once it exists, holds the number of
\* links posted, one less between a post and the save_index that follows it;
\* while pickle.index is missing nothing has been posted.
C19_IndexCountsAnnouncements ==
    /\ \A k \in 1..Len(announced) :
           k <= Len(sheet_links) =>
               announced[k] = get_links_by_date(sheet_links)[k]
    /\ \A j, k \in 1..Len(announced) : j # k => announced[j] # announced[k]
    /\ IF index_file = None THEN announced = << >>
       ELSE IF \E r \in Runs : tweeter_pc[r] \in {"increment", "save_index"}
       THEN Len(announced) = ToInt(index_file) + 1
       ELSE Len(announced) = ToInt(index_file)

\* Two runs have ended, one after the other, each after a post, on a sheet
\* whose rows are not in the order of their dates: the index is 2.
C19_Witness ==
    /\ \A r \in Runs : r <= 2 => tweeter_pc[r] = "ended"
    /\ index_file = ToStr(2)
    /\ Len(announced) = 2
    /\ sheet_links # get_links_by_date(sheet_links)

\* A link of the sequence that pickle.index has moved past and that no run
\* has posted.
SkippedLinks ==
    IF index_file = None THEN {}
    ELSE { k \in 1..Len(sheet_links) :
             /\ k <= ToInt(index_file)
             /\ ~InSeq(get_links_by_date(sheet_links)[k], announced) }

\* Both of two runs that were under way together have ended after posting.
BothRunsEndedAfterPosting ==
    /\ tweeter_pc[1] = "ended"
    /\ tweeter_pc[2] = "ended"
    /\ current_index[1] = current_index[2]

\* C15 as claimed: two runs that load the same index and both post and save
\* leave pickle.index past a link that no run has posted.
C15_ConcurrentRunsSkip ==
    BothRunsEndedAfterPosting => SkippedLinks # {}

\* C15, amended: however the statements of concurrent runs interleave,
\* pickle.index never moves past a link that no run has posted and never
\* exceeds the number of posts; what the runs can do is post a link again.
C15_NoSkipButRepeats ==
    /\ SkippedLinks = {}
    /\ index_file # None => ToInt(index_file) <= Len(announced)

\* Two runs that loaded the same index have both posted the same link and
\* ended: the link is posted twice and the index has advanced by one.
C15_Witness ==
    /\ BothRunsEndedAfterPosting
    /\ link_to_share[1] = link_to_share[2]
    /\ \E j, k \in 1..Len(announced) : j # k /\ announced[j] = announced[k]
    /\ Len(announced) = ToInt(index_file) + 1

====
